---- MODULE Spec2Model ----
(***************************************************************************)
(* Model of s3_streamed_batch.py: get_lines (a generator that decompresses *)
(* a gzip object chunk by chunk and re-assembles lines) and lambda_handler *)
(* (header skipping and pagination over that generator).                   *)
(*                                                                         *)
(* Bytes are numbers 0..255, a byte string is a sequence of bytes, a       *)
(* decoded line is the sequence of its Unicode code points.  The           *)
(* decompressor is modelled by what it returns for each chunk: the next    *)
(* segment of the decompressed content (possibly empty), its eof flag,     *)
(* or zlib.error.                                                          *)
(***************************************************************************)
EXTENDS Integers, Sequences, FiniteSets, TLC

\* ---- bounds of the model ------------------------------------------------
MaxLen == 3        \* longest decompressed content drawn in Init
MaxChunks == 3     \* most chunks the chunk source delivers
MaxHeader == 2     \* largest HEADER_LINES drawn in Init
MaxPage == 2       \* largest PAGE_SIZE drawn in Init

\* ---- bytes ----------------------------------------------------------------
LF == 10
CR == 13
\* 'a', and the two bytes of U+00E9 (0xC3 0xA9); either of the two alone is
\* not valid UTF-8
Byte == {LF, CR, 97, 195, 169}

RECURSIVE SeqsUpTo(_, _)
SeqsUpTo(S, n) ==
  IF n = 0 THEN {<<>>}
  ELSE LET shorter == SeqsUpTo(S, n - 1)
       IN shorter \cup {Append(s, x) : s \in {t \in shorter : Len(t) = n - 1}, x \in S}

\* "h1\nh2\nA\nB\nC\nD\nE\n"
ExampleStream ==
  <<104, 49, LF, 104, 50, LF, 65, LF, 66, LF, 67, LF, 68, LF, 69, LF>>

Streams == SeqsUpTo(Byte, MaxLen) \cup {ExampleStream}

Front(s) == SubSeq(s, 1, Len(s) - 1)
Last(s) == s[Len(s)]

\* ---- bytes.splitlines() ---------------------------------------------------
\* Splits at \n, \r and \r\n, terminators removed; no empty last element.
RECURSIVE SplitFrom(_, _, _)
SplitFrom(bs, i, cur) ==
  IF i > Len(bs) THEN (IF cur = <<>> THEN <<>> ELSE <<cur>>)
  ELSE IF bs[i] = LF THEN <<cur>> \o SplitFrom(bs, i + 1, <<>>)
  ELSE IF bs[i] = CR
       THEN <<cur>> \o SplitFrom(bs, IF i < Len(bs) /\ bs[i + 1] = LF
                                      THEN i + 2 ELSE i + 1, <<>>)
  ELSE SplitFrom(bs, i + 1, Append(cur, bs[i]))

SplitLines(bs) == SplitFrom(bs, 1, <<>>)

\* ---- bytes.decode('utf-8') ------------------------------------------------
IsCont(b) == b >= 128 /\ b <= 191
IsLead2(b) == b >= 194 /\ b <= 223

RECURSIVE Utf8ValidFrom(_, _)
Utf8ValidFrom(bs, i) ==
  IF i > Len(bs) THEN TRUE
  ELSE IF bs[i] < 128 THEN Utf8ValidFrom(bs, i + 1)
  ELSE IF IsLead2(bs[i]) /\ i < Len(bs) /\ IsCont(bs[i + 1])
       THEN Utf8ValidFrom(bs, i + 2)
  ELSE FALSE

Utf8Valid(bs) == Utf8ValidFrom(bs, 1)

RECURSIVE DecodeFrom(_, _)
DecodeFrom(bs, i) ==
  IF i > Len(bs) THEN <<>>
  ELSE IF bs[i] < 128 THEN <<bs[i]>> \o DecodeFrom(bs, i + 1)
  ELSE <<(bs[i] - 192) * 64 + (bs[i + 1] - 128)>> \o DecodeFrom(bs, i + 2)

\* defined for valid input; invalid input raises UnicodeDecodeError
Decode(bs) == DecodeFrom(bs, 1)

\* ---- one iteration of the chunk loop of get_lines -------------------------
\* zlib.error swallowed: the chunk contributes no output
DecompressSwallow(corrupt, out) == [err |-> "none", out |-> <<>>]

\* decompressor.decompress(...): the chunk's output, or zlib.error
Decompress(corrupt, out) ==
  IF corrupt THEN [err |-> "zlib.error", out |-> <<>>]
  ELSE [err |-> "none", out |-> out]

UnconsumedTailKept(input) == input

\* decompressor.unconsumed_tail after decompress() called without max_length:
\* all input was consumed
UnconsumedTail(input) == <<>>

\* the popped element is appended to the old leftover instead of replacing it
ProcessChunkAccum(lo, out, e) ==
  LET ls == SplitLines(lo \o out)
  IN IF e THEN [err |-> "none", lines |-> ls, leftover |-> lo]
     ELSE IF ls = <<>> THEN [err |-> "IndexError", lines |-> <<>>, leftover |-> lo]
     ELSE [err |-> "none", lines |-> Front(ls), leftover |-> lo \o Last(ls)]

\* the last element is popped whether or not eof was reached
ProcessChunkAlwaysPop(lo, out, e) ==
  LET ls == SplitLines(lo \o out)
  IN IF ls = <<>> THEN [err |-> "IndexError", lines |-> <<>>, leftover |-> lo]
     ELSE [err |-> "none", lines |-> Front(ls), leftover |-> Last(ls)]

\* lines 90-97: split leftover + output; unless eof, pop the last element
\* into leftover (list.pop on an empty list raises IndexError)
ProcessChunk(lo, out, e) ==
  LET ls == SplitLines(lo \o out)
  IN IF e THEN [err |-> "none", lines |-> ls, leftover |-> lo]
     ELSE IF ls = <<>> THEN [err |-> "IndexError", lines |-> <<>>, leftover |-> lo]
     ELSE [err |-> "none", lines |-> Front(ls), leftover |-> Last(ls)]

\* ---- lambda_handler helpers -----------------------------------------------
IsliceLimitOff(P) == P

\* islice(line_iter, PAGE_SIZE - 1)
IsliceLimit(P) == P - 1

ChainPageDrop(first) == <<>>

\* chain([page_first_line], ...): a page starts with its first line
ChainPage(first) == <<first>>

VARIABLES
  stream,        \* the decompressed content of the object (input)
  header_lines,  \* HEADER_LINES
  page_size,     \* PAGE_SIZE
  pos,           \* bytes of stream the decompressor has output so far
  eof,           \* decompressor.eof
  nchunks,       \* chunks taken from file_stream.iter_chunks so far
  leftover,      \* get_lines: leftover
  lines,         \* get_lines: the lines of the current chunk not yet yielded
  gen,           \* generator: "active", "finished" (returned), "raised"
  pc,            \* lambda_handler: "header", "outer", "inner", "done"
  hdr,           \* header lines discarded so far
  inpage,        \* lines of the current page taken through islice
  pages,         \* lines handed to the sink, grouped by outer-loop iteration
  err,           \* the exception that ended the invocation, or "none"
  yielded,       \* history: every line get_lines yielded
  yieldStep,     \* history: nchunks at the time of each yield
  chunks,        \* history: [out, eof] of every chunk decompressed
  corruptAt,     \* history: index of the chunk whose decompression raised, or 0
  handle,        \* file_stream: "unopened", "open", "released"
  tail,          \* decompressor.unconsumed_tail (chunk numbers stand for bytes)
  fed,           \* history: the compressed input passed to decompress, in order
  cands          \* history: every candidate line placed in lines, in order

vars == <<stream, header_lines, page_size, pos, eof, nchunks, leftover, lines,
          gen, pc, hdr, inpage, pages, err, yielded, yieldStep, chunks,
          corruptAt, handle, tail, fed, cands>>

config == <<stream, header_lines, page_size>>
genvars == <<pos, eof, nchunks, leftover, lines, chunks, corruptAt>>
hist == <<yielded, yieldStep>>
feed == <<tail, fed, cands>>
handler == <<hdr, inpage, pages>>

Init ==
  /\ stream \in Streams
  /\ header_lines \in 0..MaxHeader
  /\ page_size \in 1..MaxPage
  /\ pos = 0
  /\ eof = FALSE
  /\ nchunks = 0
  /\ leftover = <<>>
  /\ lines = <<>>
  /\ gen = "active"
  /\ pc = "header"
  /\ hdr = 0
  /\ inpage = 0
  /\ pages = <<>>
  /\ err = "none"
  /\ yielded = <<>>
  /\ yieldStep = <<>>
  /\ chunks = <<>>
  /\ corruptAt = 0
  /\ handle = "unopened"
  /\ tail = <<>>
  /\ fed = <<>>
  /\ cands = <<>>

\* the handler is inside next(line_iter)
Pulling ==
  /\ err = "none"
  /\ \/ pc = "header" /\ hdr < header_lines
     \/ pc = "outer"
     \/ pc = "inner" /\ inpage < IsliceLimit(page_size) + 1

\* the chunk loop runs ahead of the lines still to be yielded
NeedChunkEager == Pulling /\ gen = "active"

\* the generator is resumed and has to run the chunk loop to find a line
NeedChunk == Pulling /\ gen = "active" /\ lines = <<>>

\* an exception leaves the generator and, uncaught, lambda_handler; pc keeps
\* the place of lambda_handler the exception passed through
Raise(e) ==
  /\ gen' = "raised"
  /\ err' = e

\* ---- get_lines ------------------------------------------------------------
\* lines 89-97 for one chunk: it decompresses to the next n bytes of the
\* content and leaves decompressor.eof = e, or (corrupt) it is malformed
\* compressed data.  After eof the decompressor returns b'' for any input.
GenChunk(n, e, corrupt) ==
  /\ NeedChunk
  /\ nchunks < MaxChunks
  /\ IF eof THEN n = 0 /\ e /\ ~corrupt
     ELSE IF corrupt THEN n = 0 /\ ~e
     ELSE pos + n <= Len(stream) /\ (e => pos + n = Len(stream))
  /\ nchunks' = nchunks + 1
  /\ corruptAt' = IF corrupt THEN nchunks + 1 ELSE corruptAt
  /\ handle' = "open"
  /\ LET input == tail \o <<nchunks + 1>>
     IN fed' = fed \o input /\ tail' = UnconsumedTail(input)
  /\ LET d == Decompress(corrupt, SubSeq(stream, pos + 1, pos + n))
     IN IF d.err # "none"
        THEN /\ Raise(d.err)
             /\ UNCHANGED <<pos, eof, chunks, leftover, lines, cands>>
        ELSE LET r == ProcessChunk(leftover, d.out, e)
             IN /\ pos' = pos + n
                /\ eof' = e
                /\ chunks' = Append(chunks, [out |-> d.out, eof |-> e])
                /\ IF r.err # "none"
                   THEN Raise(r.err) /\ UNCHANGED <<leftover, lines, cands>>
                   ELSE /\ leftover' = r.leftover
                        /\ lines' = r.lines
                        /\ cands' = cands \o r.lines
                        /\ UNCHANGED <<gen, err>>
  /\ UNCHANGED <<config, handler, hist, pc>>

\* line 89: iter_chunks raises (the read from S3 failed)
GenFetchError ==
  /\ NeedChunk
  /\ nchunks < MaxChunks
  /\ Raise("SourceError")
  /\ handle' = "open"
  /\ UNCHANGED <<config, handler, hist, genvars, feed, pc>>

\* line 89: iter_chunks is exhausted, the generator returns
GenExhausted ==
  /\ NeedChunk
  /\ gen' = "finished"
  /\ handle' = "released"
  /\ UNCHANGED <<config, handler, hist, genvars, feed, pc, err>>

\* the invalid line is skipped instead of raising
GenDecodeSkip ==
  /\ Pulling /\ gen = "active" /\ lines # <<>>
  /\ ~Utf8Valid(Head(lines))
  /\ lines' = Tail(lines)
  /\ UNCHANGED <<config, handler, hist, pos, eof, nchunks, leftover, chunks,
                 corruptAt, feed, handle, pc, gen, err>>

\* line 100: the next line is not valid UTF-8
GenDecodeError ==
  /\ Pulling /\ gen = "active" /\ lines # <<>>
  /\ ~Utf8Valid(Head(lines))
  /\ Raise("UnicodeDecodeError")
  /\ UNCHANGED <<config, handler, hist, genvars, feed, handle, pc>>

\* lines 99-100: yield the next line of the current chunk
CanYield ==
  err = "none" /\ gen = "active" /\ lines # <<>> /\ Utf8Valid(Head(lines))

Yield ==
  /\ yielded' = Append(yielded, Decode(Head(lines)))
  /\ yieldStep' = Append(yieldStep, nchunks)
  /\ lines' = Tail(lines)
  /\ UNCHANGED <<config, pos, eof, nchunks, leftover, chunks, corruptAt, gen, err,
                 feed, handle>>

\* ---- lambda_handler -------------------------------------------------------
\* lines 41-42: next(line_iter), result discarded
HeaderNext ==
  /\ pc = "header" /\ hdr < header_lines
  /\ CanYield
  /\ Yield
  /\ hdr' = hdr + 1
  /\ UNCHANGED <<pc, inpage, pages>>

\* line 42: next(line_iter) on the exhausted generator raises StopIteration
HeaderStop ==
  /\ pc = "header" /\ hdr < header_lines
  /\ gen = "finished" /\ err = "none"
  /\ err' = "StopIteration"
  /\ UNCHANGED <<config, genvars, hist, handler, gen, pc, feed, handle>>

\* line 41: range(HEADER_LINES) is exhausted
HeaderExit ==
  /\ pc = "header" /\ hdr = header_lines /\ err = "none"
  /\ pc' = "outer"
  /\ UNCHANGED <<config, genvars, hist, handler, gen, err, feed, handle>>

\* line 44 and the first element of the chain of line 49, handed to line 51
OuterNext ==
  /\ pc = "outer"
  /\ CanYield
  /\ Yield
  /\ pages' = Append(pages, ChainPage(Decode(Head(lines))))
  /\ inpage' = 1
  /\ pc' = "inner"
  /\ UNCHANGED hdr

\* line 44: the for loop ends on StopIteration
OuterStop ==
  /\ pc = "outer"
  /\ gen = "finished"
  /\ pc' = "done"
  /\ UNCHANGED <<config, genvars, hist, handler, gen, err, feed, handle>>

\* line 49: the islice takes one more line, handed to line 51
InnerNext ==
  /\ pc = "inner" /\ inpage < IsliceLimit(page_size) + 1
  /\ CanYield
  /\ Yield
  /\ pages' = [pages EXCEPT ![Len(pages)] = Append(@, Decode(Head(lines)))]
  /\ inpage' = inpage + 1
  /\ UNCHANGED <<pc, hdr>>

\* line 49: the islice ends because line_iter is exhausted
InnerStop ==
  /\ pc = "inner" /\ inpage < IsliceLimit(page_size) + 1
  /\ gen = "finished"
  /\ pc' = "outer"
  /\ UNCHANGED <<config, genvars, hist, handler, gen, err, feed, handle>>

\* line 49: the islice has taken PAGE_SIZE - 1 lines
InnerExit ==
  /\ pc = "inner" /\ inpage >= IsliceLimit(page_size) + 1 /\ err = "none"
  /\ pc' = "outer"
  /\ UNCHANGED <<config, genvars, hist, handler, gen, err, feed, handle>>

Next ==
  \/ \E n \in 0..Len(stream), e \in BOOLEAN, corrupt \in BOOLEAN :
       GenChunk(n, e, corrupt)
  \/ GenFetchError
  \/ GenExhausted
  \/ GenDecodeError
  \/ HeaderNext
  \/ HeaderStop
  \/ HeaderExit
  \/ OuterNext
  \/ OuterStop
  \/ InnerNext
  \/ InnerStop
  \/ InnerExit

Spec == Init /\ [][Next]_vars

\* one thread runs lambda_handler and the generator it drives: a step that
\* can be taken is taken
FairSpec == Spec /\ WF_vars(Next)

\* ---- get_lines as a function of the whole chunk sequence -------------------
\* the decoded lines of ls up to the first one that is not valid UTF-8
RECURSIVE YieldAll(_, _)
YieldAll(ls, acc) ==
  IF ls = <<>> THEN [lines |-> acc, err |-> "none"]
  ELSE IF ~Utf8Valid(Head(ls)) THEN [lines |-> acc, err |-> "UnicodeDecodeError"]
  ELSE YieldAll(Tail(ls), Append(acc, Decode(Head(ls))))

\* list(get_lines(...)) when the chunks decompress to outs[1], outs[2], ...
\* and the decompressor reaches eof in the last one
RECURSIVE RunFrom(_, _, _, _)
RunFrom(outs, i, lo, acc) ==
  IF i > Len(outs) THEN [lines |-> acc, err |-> "none"]
  ELSE LET r == ProcessChunk(lo, outs[i], i = Len(outs))
       IN IF r.err # "none" THEN [lines |-> acc, err |-> r.err]
          ELSE LET y == YieldAll(r.lines, acc)
               IN IF y.err # "none" THEN y
                  ELSE RunFrom(outs, i + 1, r.leftover, y.lines)

RunChunks(outs) == RunFrom(outs, 1, <<>>, <<>>)

\* ---- vocabulary of the properties ---------------------------------------
RECURSIVE SubsetsUpTo(_, _)
SubsetsUpTo(S, k) ==
  IF k = 0 THEN {{}}
  ELSE LET prev == SubsetsUpTo(S, k - 1)
       IN prev \cup {Q \cup {x} : Q \in prev, x \in S}

RECURSIVE Pieces(_, _, _)
Pieces(s, from, cutset) ==
  IF cutset = {} THEN <<SubSeq(s, from, Len(s))>>
  ELSE LET p == CHOOSE x \in cutset : \A y \in cutset : x <= y
       IN <<SubSeq(s, from, p)>> \o Pieces(s, p + 1, cutset \ {p})

\* every way of cutting s into at most MaxChunks non-empty pieces
Cuts(s) == {Pieces(s, 1, Q) : Q \in SubsetsUpTo(1..(Len(s) - 1), MaxChunks - 1)}

RECURSIVE Flatten(_)
Flatten(ps) == IF ps = <<>> THEN <<>> ELSE Head(ps) \o Flatten(Tail(ps))

Ceil(a, b) == (a + b - 1) \div b

\* the lines of the decompressed content, split as a whole
RefLines == SplitLines(stream)
RefValid == \A i \in DOMAIN RefLines : Utf8Valid(RefLines[i])
RefText == [i \in DOMAIN RefLines |-> Decode(RefLines[i])]

\* what get_lines yielded after the header lines
Body == SubSeq(yielded, header_lines + 1, Len(yielded))
BodyLen == IF Len(yielded) > header_lines THEN Len(yielded) - header_lines ELSE 0

\* the invocation is over
Over == pc = "done" \/ err # "none"

\* the whole object was delivered and was a well-formed gzip stream: the
\* chunk source ended right after the chunk in which the decompressor
\* reached end-of-stream
WholeStream ==
  /\ gen = "finished"
  /\ chunks # <<>>
  /\ chunks[Len(chunks)].eof
  /\ \A i \in 1..(Len(chunks) - 1) : ~chunks[i].eof

\* the stages upstream of the pagination loop that can fail
UpstreamErrors == {"zlib.error", "UnicodeDecodeError", "SourceError", "IndexError"}

NoTerminator(bs) == \A i \in DOMAIN bs : bs[i] # LF /\ bs[i] # CR

\* ---- C1 -------------------------------------------------------------------
\* C1: the lines get_lines yields do not depend on how the stream is cut
\* into chunks: when a whole stream has been consumed, the lines yielded are
\* the ones every other cutting of the same content yields (so a terminator
\* at the end of a chunk gives the same lines as one a byte earlier or later).
C1_ChunkingIndependent ==
  WholeStream =>
    \A c \in Cuts(stream) : RunChunks(c) = [lines |-> yielded, err |-> "none"]

\* ---- C2 -------------------------------------------------------------------
\* C2: after a whole stream has been consumed, the lines yielded are exactly
\* the terminator-delimited segments of the decompressed content, in order
\* (putting the terminators back reproduces the content): none dropped,
\* none repeated, none fused.
C2_LinesReproduceStream ==
  (WholeStream /\ RefValid) => yielded = RefText

\* ---- C3 -------------------------------------------------------------------
\* C3: with L the number of lines pulled after the header and P the page
\* size, the pagination loop has formed ceil(L/P) pages, every page but the
\* last holds P lines, the last holds 1..P lines, and the pages concatenated
\* are those L lines in order, each once; at the end of the loop L is the
\* number of all lines after the header.
C3_Pagination ==
  /\ Len(pages) = Ceil(BodyLen, page_size)
  /\ \A i \in 1..(Len(pages) - 1) : Len(pages[i]) = page_size
  /\ pages # <<>> => Len(Last(pages)) \in 1..page_size
  /\ Flatten(pages) = Body
  /\ pc = "done" => gen = "finished" /\ lines = <<>>

C3_Witness ==
  /\ pc = "done"
  /\ page_size = 2
  /\ Len(pages) >= 2
  /\ Len(Last(pages)) = 1

\* ---- C4 -------------------------------------------------------------------
\* C4: when a whole stream with at least header_lines lines has been
\* delivered, the invocation ends normally and the sink has received exactly
\* the lines after the first header_lines ones, in order, each once,
\* whatever the chunking; the example h1,h2,A,B,C,D,E with 2 header lines
\* and pages of 2 gives [A,B], [C,D], [E].
C4_BodyToSink ==
  (WholeStream /\ Over /\ RefValid /\ Len(RefLines) >= header_lines) =>
    /\ pc = "done" /\ err = "none"
    /\ Flatten(pages) = SubSeq(RefText, header_lines + 1, Len(RefText))
    /\ (stream = ExampleStream /\ header_lines = 2 /\ page_size = 2) =>
         pages = << <<<<65>>, <<66>>>>, <<<<67>>, <<68>>>>, <<<<69>>>> >>

\* ---- C5 -------------------------------------------------------------------
\* C5: header skipping ends in the end-of-sequence error exactly when the
\* line sequence ended before header_lines lines were produced, and then
\* nothing has reached the sink; a stream of exactly header_lines lines ends
\* the invocation without error and with zero pages.
C5_HeaderSkip ==
  /\ err = "StopIteration" =>
       gen = "finished" /\ Len(yielded) < header_lines /\ pages = <<>>
  /\ (Over /\ gen = "finished" /\ Len(yielded) < header_lines) =>
       err = "StopIteration"
  /\ (WholeStream /\ Over /\ RefValid /\ Len(RefLines) = header_lines) =>
       pc = "done" /\ err = "none" /\ pages = <<>>

\* ---- C6 -------------------------------------------------------------------
\* C6: a chunk whose decompressed output is empty, before end-of-stream,
\* yields no line and does not abort the sequence.
C6_EmptyChunkContinues ==
  \A i \in DOMAIN chunks :
    (chunks[i].out = <<>> /\ ~chunks[i].eof) =>
      /\ ~(i = Len(chunks) /\ gen = "raised" /\ err = "IndexError")
      /\ \A j \in DOMAIN yieldStep : yieldStep[j] # i

\* ---- C7 -------------------------------------------------------------------
\* C7: get_lines does not complete normally when the chunks ran out before
\* the decompressor reached end-of-stream; in particular not while a
\* leftover fragment is held.
C7_TruncatedIsError ==
  (gen = "finished" /\ nchunks > 0) => eof

\* ---- C8 -------------------------------------------------------------------
\* C8: when decompressing chunk k raises, no line is yielded at or after
\* chunk k, no further chunk is fetched, and the invocation ends with that
\* zlib.error.
C8_DecompressErrorPropagates ==
  corruptAt # 0 =>
    /\ gen = "raised"
    /\ err = "zlib.error"
    /\ pc # "done"
    /\ nchunks = corruptAt
    /\ \A j \in DOMAIN yieldStep : yieldStep[j] < corruptAt

C8_Witness ==
  /\ corruptAt = 3
  /\ err = "zlib.error"
  /\ Len(yielded) >= 2
  /\ leftover # <<>>
  /\ pc = "inner"

C10_NoTerminatorOneLine ==
  (stream # <<>> /\ NoTerminator(stream) /\ Utf8Valid(stream)
     /\ \A i \in 1..(Len(chunks) - 1) : ~chunks[i].eof) =>
    /\ gen = "raised" => err \in {"zlib.error", "SourceError"}
    /\ \A j \in DOMAIN yielded :
         yielded[j] = Decode(stream) /\ chunks[yieldStep[j]].eof
    /\ Len(yielded) <= 1
    /\ WholeStream => Len(yielded) = 1

\* ---- vocabulary of C11..C18 ------------------------------------------------
IsTerm(b) == b = LF \/ b = CR
EndsTerm(bs) == bs # <<>> /\ IsTerm(Last(bs))

\* terminators in bs, \r\n counted once
TermCount(bs) ==
  Cardinality({i \in DOMAIN bs :
                 IsTerm(bs[i]) /\ ~(bs[i] = LF /\ i > 1 /\ bs[i - 1] = CR)})

NonTermCount(bs) == Cardinality({i \in DOMAIN bs : ~IsTerm(bs[i])})

\* the longest decompressed output of one chunk so far
ChunkOutMax ==
  IF chunks = <<>> THEN 0
  ELSE LET i == CHOOSE k \in DOMAIN chunks :
                  \A m \in DOMAIN chunks : Len(chunks[m].out) <= Len(chunks[k].out)
       IN Len(chunks[i].out)

\* the chunk in which the decompressor reached end-of-stream, or 0
FirstEof ==
  IF \E i \in DOMAIN chunks : chunks[i].eof
  THEN CHOOSE i \in DOMAIN chunks :
         chunks[i].eof /\ \A m \in 1..(i - 1) : ~chunks[m].eof
  ELSE 0

\* the first candidate that is not valid UTF-8, or 0
FirstInvalid ==
  IF \E i \in DOMAIN cands : ~Utf8Valid(cands[i])
  THEN CHOOSE i \in DOMAIN cands :
         ~Utf8Valid(cands[i]) /\ \A m \in 1..(i - 1) : Utf8Valid(cands[m])
  ELSE 0

YieldsAt(k) == Cardinality({j \in DOMAIN yieldStep : yieldStep[j] = k})

\* ---- C11 ------------------------------------------------------------------
\* C11: a chunk is taken from the chunk source only while the consumer is
\* inside a pull and every line of the chunks before it has been yielded,
\* and every line pulled is either discarded as a header line or handed to
\* the sink.
C11_DemandDriven ==
  [][/\ nchunks' # nchunks =>
          Pulling /\ lines = <<>> /\ Len(yielded) = Len(cands)
     /\ Len(yielded') = hdr' + Len(Flatten(pages'))]_vars

C11_Witness ==
  /\ nchunks = 2
  /\ YieldsAt(1) >= 2
  /\ YieldsAt(2) >= 1
  /\ hdr >= 1
  /\ pages # <<>>

\* ---- C12 ------------------------------------------------------------------
\* C12: when the invocation is over, on whatever path, the stream handle
\* get_lines opened has been released.
C12_HandleReleased ==
  Over => handle # "open"

\* ---- C13 ------------------------------------------------------------------
\* C13 as stated: the leftover fragment is bounded by a quantity that does
\* not grow with the content or the number of chunks; here, by the largest
\* decompressed output of a single chunk.
C13_LeftoverBoundedByChunk ==
  Len(leftover) <= ChunkOutMax

\* C13 as amended: get_lines holds the lines of the latest chunk still to be
\* yielded and one leftover fragment; the fragment contains no terminator
\* and is no longer than the terminator-free bytes decompressed so far, and
\* a content without terminators is held in it whole.
C13_LeftoverIsOneFragment ==
  /\ NoTerminator(leftover)
  /\ Len(leftover) <= NonTermCount(SubSeq(stream, 1, pos))
  /\ Len(lines) <= Len(cands)
  /\ lines = SubSeq(cands, Len(cands) - Len(lines) + 1, Len(cands))
  /\ (NoTerminator(stream) /\ ~eof /\ gen = "active")
       => leftover = SubSeq(stream, 1, pos)

C13_Witness ==
  /\ nchunks = 3
  /\ ~eof
  /\ gen = "active"
  /\ Len(leftover) = 3
  /\ ChunkOutMax = 1

\* ---- C14 ------------------------------------------------------------------
\* C14: when the output of a chunk before end-of-stream ended on a line
\* terminator, the line popped into leftover is still the first candidate,
\* unchanged and on its own, after the next chunk has been processed.
C14_CompleteLeftoverKept ==
  [][(/\ Len(chunks') = Len(chunks) + 1
      /\ chunks # <<>>
      /\ ~eof
      /\ EndsTerm(Last(chunks).out)
      /\ gen' = "active")
       => LET ls == IF eof' THEN lines' ELSE Append(lines', leftover')
          IN ls # <<>> /\ ls[1] = leftover]_vars

\* ---- C15 ------------------------------------------------------------------
\* C15: no line is yielded from a chunk that comes after the chunk in which
\* the decompressor reached end-of-stream.
C15_NoYieldAfterEof ==
  \A j \in DOMAIN yieldStep :
    \A i \in 1..(yieldStep[j] - 1) : i \in DOMAIN chunks => ~chunks[i].eof

\* ---- C16 ------------------------------------------------------------------
\* C16: in the step in which the decompressor reaches end-of-stream the
\* candidates are the lines of leftover + output, all of them, the last
\* unterminated fragment included; they are yielded in order, all of them
\* once the generator has finished, and an output ending on a terminator
\* adds no empty line.
C16_EofStepYieldsAll ==
  (eof /\ nchunks = FirstEof) =>
    LET combined == leftover \o chunks[FirstEof].out
        C == SplitLines(combined)
        n == YieldsAt(FirstEof)
        Y == SubSeq(yielded, Len(yielded) - n + 1, Len(yielded))
    IN /\ n + Len(lines) = Len(C)
       /\ \A j \in 1..n : Utf8Valid(C[j]) /\ Y[j] = Decode(C[j])
       /\ lines = SubSeq(C, n + 1, Len(C))
       /\ gen = "finished" => n = Len(C)
       /\ EndsTerm(combined) => Len(C) = TermCount(combined)
       /\ (combined # <<>> /\ ~EndsTerm(combined)) => Len(C) = TermCount(combined) + 1

C16_Witness ==
  /\ eof /\ nchunks = FirstEof
  /\ FirstEof >= 2
  /\ leftover # <<>>
  /\ chunks[FirstEof].out # <<>>
  /\ ~EndsTerm(chunks[FirstEof].out)
  /\ gen = "finished"
  /\ YieldsAt(FirstEof) >= 2

\* ---- C17 ------------------------------------------------------------------
\* C17: the lines yielded are the decoded candidates, in order, up to but
\* not including the first candidate that is not valid UTF-8; the decode
\* error leaves the generator raised, with exactly the candidates before
\* the invalid one yielded.
C17_DecodeErrorStops ==
  /\ Len(yielded) <= Len(cands)
  /\ \A j \in DOMAIN yielded : Utf8Valid(cands[j]) /\ yielded[j] = Decode(cands[j])
  /\ FirstInvalid # 0 => Len(yielded) < FirstInvalid
  /\ err = "UnicodeDecodeError" =>
       /\ gen = "raised"
       /\ FirstInvalid # 0
       /\ Len(yielded) = FirstInvalid - 1
       /\ pc # "done"

C17_Witness ==
  /\ err = "UnicodeDecodeError"
  /\ nchunks = 2
  /\ YieldsAt(2) >= 1
  /\ chunks[2].out # <<>>
  /\ lines # <<>> /\ ~Utf8Valid(Head(lines))

\* ---- C18 ------------------------------------------------------------------
\* C18: the invocation eventually ends, and at every point the input passed
\* to the decompressor is chunk 1, chunk 2, ... up to the last chunk taken
\* from the source: none twice, none skipped, in source order.
C18_TerminatesFedOnce ==
  /\ <>Over
  /\ [](fed = [i \in 1..nchunks |-> i])

C18_Witness ==
  /\ pc = "done"
  /\ nchunks = 3
  /\ fed = <<1, 2, 3>>
  /\ Len(yielded) >= 2

====
